---- MODULE Spec2Model ----
(***************************************************************************)
(* Model of the Gigabyte keyboard HID driver                               *)
(* (src/driver/gigabytekbd_driver.c): the shared "Gigabyte Fn Keys" input  *)
(* device and its refcount, the raw-event router, the two work items that  *)
(* toggle the backlight and the touchpad driver, and probe/remove of the   *)
(* keyboard's HID interfaces.                                              *)
(*                                                                         *)
(* Kernel services the driver calls (workqueue, input core, driver core,   *)
(* backlight class) are modelled by their documented behaviour at the call *)
(* sites.  Pointers are modelled as small integers, NULL being 0.          *)
(***************************************************************************)
EXTENDS Integers, Sequences, FiniteSets, TLC

(* ---------------------------------------------------------------- bounds *)

\* Number of HID interfaces of the keyboard that can be probed.
NumIfaces == 3

Interfaces == 1..NumIfaces

(* ------------------------------------------------------------- constants *)

NULL == 0

HIDRAW_FN_ESC == \h04000084
HIDRAW_FN_F2 == \h0400007C
HIDRAW_FN_F3 == \h0400007D
HIDRAW_FN_F4 == \h0400007E
HIDRAW_FN_F5 == \h0400007F
HIDRAW_FN_F6 == \h04000080
HIDRAW_FN_F8_PRESS == \h04000186
HIDRAW_FN_F8_RELEASE == \h04000086
HIDRAW_FN_F9_PRESS == \h04000187
HIDRAW_FN_F9_RELEASE == \h04000087
HIDRAW_FN_F10 == \h04000081
HIDRAW_FN_F11 == \h04000082
HIDRAW_FN_F12 == \h04000083
HIDRAW_FN_F12_ALT == \h04000088

\* props.power values of <linux/fb.h> used by the backlight class.
FB_BLANK_UNBLANK == 0
FB_BLANK_POWERDOWN == 4

\* The two work items of the driver.
BacklightWork == "gigabyte_kbd_backlight_toggle_work"
TouchpadWork == "gigabyte_kbd_touchpad_toggle_driver_work"
Works == {BacklightWork, TouchpadWork}

\* Handles returned by the two device lookups when the device exists.
BacklightDev == 1
TouchpadDev == 1

\* Drivers that may be bound to the touchpad's i2c device (non-NULL pointers).
Drivers == {1, 2}

(* ----------------------------------------------------------------- state *)

VARIABLES
    attached,                       \* interfaces probed and not yet removed
    sinkUsers,                      \* of these, those whose setup_input_dev returned 0
    gigabyte_kbd_input_dev,         \* NULL, or the interface that is the device's parent
    gigabyte_kbd_refcount,
    gigabyte_kbd_consumer_dev,      \* NULL, or the interface owning the Consumer Control input
    consumerFreed,                  \* the input gigabyte_kbd_consumer_dev points to was destroyed
    inputFreed,                     \* input_unregister_device() ran and gigabyte_kbd_input_dev
                                    \* has not been set to NULL yet
    gigabyte_kbd_backlight_device,
    gigabyte_kbd_touchpad_device,
    gigabyte_kbd_touchpad_driver,   \* NULL or a driver
    backlightRegistered,            \* environment: "intel_backlight" exists
    touchpadOnBus,                  \* environment: a matching i2c device exists
    power,                          \* backlight props.power
    touchpadBound,                  \* touchpad device->driver: NULL or a driver
    pending,                        \* per work item: queued instances not yet started
    running,                        \* per work item: instances whose function is executing
    nullRead,                       \* a read through a NULL handle has happened
    oops,                           \* the kernel faulted in the event handler
    last,                           \* observation of the handler that just returned
    hist                            \* history: what the work items were queued for and did

vars == <<attached, sinkUsers, gigabyte_kbd_input_dev, gigabyte_kbd_refcount,
          gigabyte_kbd_consumer_dev, consumerFreed, inputFreed,
          gigabyte_kbd_backlight_device,
          gigabyte_kbd_touchpad_device, gigabyte_kbd_touchpad_driver,
          backlightRegistered, touchpadOnBus, power, touchpadBound,
          pending, running, nullRead, oops, last, hist>>

sinkVars == <<gigabyte_kbd_input_dev, gigabyte_kbd_refcount>>
peripheralVars == <<gigabyte_kbd_backlight_device, gigabyte_kbd_touchpad_device,
                    gigabyte_kbd_touchpad_driver>>
envVars == <<backlightRegistered, touchpadOnBus>>

\* The observation while no raw event is being returned to the HID core.
NoEvent == [op |-> "none", id |-> 0, size |-> 0, rd |-> <<>>, out |-> <<>>,
            ret |-> 0, emitted |-> <<>>, injected |-> <<>>, scheduled |-> {},
            coalesced |-> {}, stale |-> {}]

\* Nothing has happened to the peripherals yet.
\* powerAtSchedule: props.power when the backlight work was last queued;
\* externalChange: props.power was changed from outside while that work waited;
\* detached: the driver the toggle function released and has not bound again;
\* rebindFailed: device_driver_attach() has failed since that release.
NoHistory == [powerAtSchedule |-> FB_BLANK_UNBLANK, externalChange |-> FALSE,
              detached |-> NULL, rebindFailed |-> FALSE]

\* The observation left by the return of work function w.
Returned(w) == [NoEvent EXCEPT !.op = w]

\* The machine runs and the HID core is not in the middle of a report.
Idle == ~oops /\ last.op # "raw_event"

Init ==
    /\ attached = {}
    /\ sinkUsers = {}
    /\ gigabyte_kbd_input_dev = NULL
    /\ gigabyte_kbd_refcount = 0
    /\ gigabyte_kbd_consumer_dev = NULL
    /\ consumerFreed = FALSE
    /\ inputFreed = FALSE
    /\ gigabyte_kbd_backlight_device = NULL
    /\ gigabyte_kbd_touchpad_device = NULL
    /\ gigabyte_kbd_touchpad_driver = NULL
    /\ backlightRegistered \in BOOLEAN
    /\ touchpadOnBus \in BOOLEAN
    /\ power \in {FB_BLANK_UNBLANK, FB_BLANK_POWERDOWN}
    /\ touchpadBound \in Drivers \cup {NULL}
    /\ pending = [w \in Works |-> 0]
    /\ running = [w \in Works |-> 0]
    /\ nullRead = FALSE
    /\ oops = FALSE
    /\ last = NoEvent
    /\ hist = NoHistory


(* -------------------------------------------------- shared input device *)

\* What input_allocate_device() / input_register_device() can do.
SetupOutcomes == {"ok", "alloc_fails", "register_fails"}

\* gigabyte_kbd_setup_input_dev with the refcount++ of the reuse branch left out.
setup_input_dev_without_increment(h, outcome) ==
    IF gigabyte_kbd_input_dev # NULL
    THEN [dev |-> gigabyte_kbd_input_dev, refcount |-> gigabyte_kbd_refcount, ret |-> 0]
    ELSE IF outcome # "ok"
    THEN [dev |-> gigabyte_kbd_input_dev, refcount |-> gigabyte_kbd_refcount, ret |-> -12]
    ELSE [dev |-> h, refcount |-> 1, ret |-> 0]

\* gigabyte_kbd_setup_input_dev keeping a count of 1 when registration fails.
setup_input_dev_counting_failure(h, outcome) ==
    IF gigabyte_kbd_input_dev # NULL
    THEN [dev |-> gigabyte_kbd_input_dev, refcount |-> gigabyte_kbd_refcount + 1, ret |-> 0]
    ELSE IF outcome = "alloc_fails"
    THEN [dev |-> gigabyte_kbd_input_dev, refcount |-> gigabyte_kbd_refcount, ret |-> -12]
    ELSE IF outcome = "register_fails"
    THEN [dev |-> gigabyte_kbd_input_dev, refcount |-> 1, ret |-> -22]
    ELSE [dev |-> h, refcount |-> 1, ret |-> 0]

\* gigabyte_kbd_setup_input_dev(hdev): the new <<input_dev, refcount>> and the
\* return value (0, or a negative errno).
gigabyte_kbd_setup_input_dev(h, outcome) ==
    IF gigabyte_kbd_input_dev # NULL
    THEN [dev |-> gigabyte_kbd_input_dev, refcount |-> gigabyte_kbd_refcount + 1, ret |-> 0]
    ELSE IF outcome = "alloc_fails"
    THEN [dev |-> gigabyte_kbd_input_dev, refcount |-> gigabyte_kbd_refcount, ret |-> -12]
    ELSE IF outcome = "register_fails"
    THEN [dev |-> gigabyte_kbd_input_dev, refcount |-> gigabyte_kbd_refcount, ret |-> -22]
    ELSE [dev |-> h, refcount |-> 1, ret |-> 0]

\* gigabyte_kbd_remove's refcount handling without the refcount > 0 test.
remove_sink_without_positive_test ==
    IF gigabyte_kbd_refcount - 1 = 0 /\ gigabyte_kbd_input_dev # NULL
    THEN [dev |-> NULL, refcount |-> gigabyte_kbd_refcount - 1]
    ELSE [dev |-> gigabyte_kbd_input_dev, refcount |-> gigabyte_kbd_refcount - 1]

\* The refcount part of gigabyte_kbd_remove(): the new <<input_dev, refcount>>.
gigabyte_kbd_remove_sink ==
    IF gigabyte_kbd_refcount > 0
    THEN IF gigabyte_kbd_refcount - 1 = 0 /\ gigabyte_kbd_input_dev # NULL
         THEN [dev |-> NULL, refcount |-> gigabyte_kbd_refcount - 1]
         ELSE [dev |-> gigabyte_kbd_input_dev, refcount |-> gigabyte_kbd_refcount - 1]
    ELSE [dev |-> gigabyte_kbd_input_dev, refcount |-> gigabyte_kbd_refcount]

\* backlight_device_get_by_name(GIGABYTE_KBD_BACKLIGHT_DEVICE_NAME)
backlight_device_get_by_name == IF backlightRegistered THEN BacklightDev ELSE NULL

\* bus_find_device(&i2c_bus_type, NULL, NULL, gigabyte_kbd_match_touchpad_device)
bus_find_device == IF touchpadOnBus THEN TouchpadDev ELSE NULL

\* gigabyte_kbd_probe(hdev, id) on its successful path (devm_kzalloc, hid_parse
\* and hid_hw_start succeed; when one of them fails probe returns before it
\* touches any of the state below and the interface stays unbound).
\* hasCC: one of hdev's inputs is named "... Consumer Control".
gigabyte_kbd_probe(h, hasCC, outcome) ==
    LET s == gigabyte_kbd_setup_input_dev(h, outcome)
        tp == bus_find_device
    IN  /\ Idle
        /\ ~inputFreed
        /\ h \notin attached
        /\ attached' = attached \cup {h}
        /\ IF gigabyte_kbd_consumer_dev = NULL /\ hasCC
           THEN /\ gigabyte_kbd_consumer_dev' = h
                /\ consumerFreed' = FALSE
           ELSE UNCHANGED <<gigabyte_kbd_consumer_dev, consumerFreed>>
        /\ gigabyte_kbd_input_dev' = s.dev
        /\ gigabyte_kbd_refcount' = s.refcount
        /\ sinkUsers' = IF s.ret = 0 THEN sinkUsers \cup {h} ELSE sinkUsers
        /\ gigabyte_kbd_backlight_device' = backlight_device_get_by_name
        /\ gigabyte_kbd_touchpad_device' = tp
        /\ gigabyte_kbd_touchpad_driver' =
               IF tp # NULL THEN touchpadBound ELSE gigabyte_kbd_touchpad_driver
        /\ last' = NoEvent
        /\ UNCHANGED <<inputFreed, envVars, power, touchpadBound, pending, running,
                       nullRead, oops, hist>>

\* gigabyte_kbd_remove(hdev)
gigabyte_kbd_remove(h) ==
    LET s == gigabyte_kbd_remove_sink
    IN  /\ Idle
        /\ ~inputFreed
        /\ h \in attached
        /\ attached' = attached \ {h}
        /\ sinkUsers' = sinkUsers \ {h}
        \* hid_hw_stop() destroys the interface's own input devices
        /\ consumerFreed' = (consumerFreed \/ gigabyte_kbd_consumer_dev = h)
        /\ gigabyte_kbd_input_dev' = s.dev
        /\ gigabyte_kbd_refcount' = s.refcount
        /\ last' = NoEvent
        /\ UNCHANGED <<gigabyte_kbd_consumer_dev, inputFreed, peripheralVars, envVars,
                       power, touchpadBound, pending, running, nullRead, oops, hist>>

\* gigabyte_kbd_remove(hdev) as far as input_unregister_device(), on the path
\* that takes the refcount to 0: hid_hw_stop() has run and the device is
\* destroyed, while gigabyte_kbd_input_dev still points to it.  Nothing keeps
\* a raw event of another interface from running at this point.
gigabyte_kbd_remove_unregister(h) ==
    /\ Idle
    /\ ~inputFreed
    /\ h \in attached
    /\ gigabyte_kbd_remove_sink.dev # gigabyte_kbd_input_dev
    /\ attached' = attached \ {h}
    /\ sinkUsers' = sinkUsers \ {h}
    /\ consumerFreed' = (consumerFreed \/ gigabyte_kbd_consumer_dev = h)
    /\ gigabyte_kbd_refcount' = gigabyte_kbd_remove_sink.refcount
    /\ inputFreed' = TRUE
    /\ last' = NoEvent
    /\ UNCHANGED <<gigabyte_kbd_input_dev, gigabyte_kbd_consumer_dev, peripheralVars,
                   envVars, power, touchpadBound, pending, running, nullRead, oops, hist>>

\* The rest of that remove: gigabyte_kbd_input_dev = NULL.
gigabyte_kbd_remove_clear ==
    /\ Idle
    /\ inputFreed
    /\ gigabyte_kbd_input_dev' = NULL
    /\ inputFreed' = FALSE
    /\ last' = NoEvent
    /\ UNCHANGED <<attached, sinkUsers, gigabyte_kbd_refcount, gigabyte_kbd_consumer_dev,
                   consumerFreed, peripheralVars, envVars, power, touchpadBound, pending,
                   running, nullRead, oops, hist>>


(* ------------------------------------------------------------ work items *)

\* schedule_work that queues another instance on every call.
schedule_work_queues_duplicates(w) == [pending EXCEPT ![w] = @ + 1]

\* schedule_work(&work): queues the work item unless it is already pending
\* (the workqueue's WORK_STRUCT_PENDING bit); returns the new queue counts.
schedule_work(w) == [pending EXCEPT ![w] = IF @ = 0 THEN 1 ELSE @]

\* A worker pool that starts a queued item even while that item is executing.
worker_may_start_reentrant(w) == pending[w] > 0

\* A worker pool that is flushed with the driver: it starts nothing once no
\* interface is bound.
worker_may_start_while_bound(w) == pending[w] > 0 /\ running[w] = 0 /\ attached # {}

\* A worker may take a queued work item once no worker is executing that same
\* item (work items are non-reentrant); other items do not hold it back.
worker_may_start(w) == pending[w] > 0 /\ running[w] = 0

\* The worker dequeues the item, clears its pending state and calls its function.
process_one_work(w) ==
    /\ Idle
    /\ worker_may_start(w)
    /\ pending' = [pending EXCEPT ![w] = @ - 1]
    /\ running' = [running EXCEPT ![w] = @ + 1]
    /\ last' = NoEvent
    /\ UNCHANGED <<attached, sinkUsers, sinkVars, gigabyte_kbd_consumer_dev, consumerFreed,
                   inputFreed, peripheralVars, envVars, power, touchpadBound, nullRead,
                   oops, hist>>

\* gigabyte_kbd_is_backlight_off() answering from the power state seen when
\* the backlight work was queued.
gigabyte_kbd_is_backlight_off_at_submission ==
    hist.powerAtSchedule = FB_BLANK_POWERDOWN

\* gigabyte_kbd_is_backlight_off() with a backlight device
gigabyte_kbd_is_backlight_off == power = FB_BLANK_POWERDOWN

\* gigabyte_kbd_backlight_toggle(work): the function body, then return to the worker.
gigabyte_kbd_backlight_toggle ==
    /\ Idle
    /\ running[BacklightWork] > 0
    /\ IF gigabyte_kbd_backlight_device = NULL
       THEN \* NULL dereference in the worker
            /\ nullRead' = TRUE
            /\ oops' = TRUE
            /\ UNCHANGED <<power, running>>
       ELSE /\ power' = IF gigabyte_kbd_is_backlight_off
                        THEN FB_BLANK_UNBLANK       \* backlight_enable()
                        ELSE FB_BLANK_POWERDOWN     \* backlight_disable()
            /\ running' = [running EXCEPT ![BacklightWork] = @ - 1]
            /\ UNCHANGED <<nullRead, oops>>
    /\ last' = Returned(BacklightWork)
    /\ UNCHANGED <<attached, sinkUsers, sinkVars, gigabyte_kbd_consumer_dev, consumerFreed,
                   inputFreed, peripheralVars, envVars, touchpadBound, pending, hist>>

\* The toggle function clearing the remembered driver once it is bound again.
touchpad_toggle_result_clearing(attachOk) ==
    IF touchpadBound # NULL
    THEN [bound |-> NULL, driver |-> touchpadBound]
    ELSE IF gigabyte_kbd_touchpad_driver # NULL
    THEN [bound |-> IF attachOk THEN gigabyte_kbd_touchpad_driver ELSE NULL,
          driver |-> IF attachOk THEN NULL ELSE gigabyte_kbd_touchpad_driver]
    ELSE [bound |-> touchpadBound, driver |-> gigabyte_kbd_touchpad_driver]

\* The touchpad state after the toggle function ran: <<device->driver, remembered driver>>.
\* attachOk: device_driver_attach() succeeds.
touchpad_toggle_result(attachOk) ==
    IF touchpadBound # NULL
    THEN [bound |-> NULL, driver |-> touchpadBound]
    ELSE IF gigabyte_kbd_touchpad_driver # NULL
    THEN [bound |-> IF attachOk THEN gigabyte_kbd_touchpad_driver ELSE NULL,
          driver |-> gigabyte_kbd_touchpad_driver]
    ELSE [bound |-> touchpadBound, driver |-> gigabyte_kbd_touchpad_driver]

\* What the toggle function did, for the history: device_release_driver()
\* (a release), device_driver_attach() succeeding or failing, or nothing.
touchpad_toggle_history(attachOk) ==
    IF touchpadBound # NULL
    THEN [hist EXCEPT !.detached = touchpadBound, !.rebindFailed = FALSE]
    ELSE IF gigabyte_kbd_touchpad_driver # NULL
    THEN IF attachOk
         THEN [hist EXCEPT !.detached = NULL, !.rebindFailed = FALSE]
         ELSE [hist EXCEPT !.rebindFailed = TRUE]
    ELSE hist

\* gigabyte_kbd_touchpad_toggle_driver(work): the function body, then return to the worker.
gigabyte_kbd_touchpad_toggle_driver(attachOk) ==
    /\ Idle
    /\ running[TouchpadWork] > 0
    /\ IF gigabyte_kbd_touchpad_device = NULL
       THEN \* NULL dereference in the worker
            /\ nullRead' = TRUE
            /\ oops' = TRUE
            /\ UNCHANGED <<touchpadBound, gigabyte_kbd_touchpad_driver, running, hist>>
       ELSE /\ touchpadBound' = touchpad_toggle_result(attachOk).bound
            /\ gigabyte_kbd_touchpad_driver' = touchpad_toggle_result(attachOk).driver
            /\ running' = [running EXCEPT ![TouchpadWork] = @ - 1]
            /\ hist' = touchpad_toggle_history(attachOk)
            /\ UNCHANGED <<nullRead, oops>>
    /\ last' = Returned(TouchpadWork)
    /\ UNCHANGED <<attached, sinkUsers, sinkVars, gigabyte_kbd_consumer_dev, consumerFreed,
                   inputFreed, gigabyte_kbd_backlight_device, gigabyte_kbd_touchpad_device,
                   envVars, power, pending>>

\* Something other than the driver changes the backlight's power state.
backlight_power_changed_externally ==
    /\ Idle
    /\ backlightRegistered
    /\ power' = IF power = FB_BLANK_POWERDOWN THEN FB_BLANK_UNBLANK ELSE FB_BLANK_POWERDOWN
    /\ hist' = IF pending[BacklightWork] > 0
               THEN [hist EXCEPT !.externalChange = TRUE]
               ELSE hist
    /\ last' = NoEvent
    /\ UNCHANGED <<attached, sinkUsers, sinkVars, gigabyte_kbd_consumer_dev, consumerFreed,
                   inputFreed, peripheralVars, envVars, touchpadBound, pending, running,
                   nullRead, oops>>


(* --------------------------------------------------------------- emission *)

\* One input_report_key(dev, key, value) call followed by input_sync(dev).
KeyEvent(dev, key, value) ==
    << [dev |-> dev, type |-> "EV_KEY", key |-> key, value |-> value],
       [dev |-> dev, type |-> "EV_SYN", key |-> "SYN_REPORT", value |-> 0] >>

\* The "Gigabyte Fn Keys" device created on behalf of interface i.
FnKeysDev(i) == <<"Gigabyte Fn Keys", i>>

\* The Consumer Control input of interface i.
ConsumerDev(i) == <<"Consumer Control", i>>

\* gigabyte_kbd_emit_key reporting the key down and never up.
gigabyte_kbd_emit_key_without_release(key) ==
    IF gigabyte_kbd_input_dev = NULL
    THEN << >>
    ELSE KeyEvent(FnKeysDev(gigabyte_kbd_input_dev), key, 1)

\* gigabyte_kbd_emit_key(gigabyte_kbd_input_dev, key): the events reported.
gigabyte_kbd_emit_key(key) ==
    IF gigabyte_kbd_input_dev = NULL
    THEN << >>
    ELSE KeyEvent(FnKeysDev(gigabyte_kbd_input_dev), key, 1)
         \o KeyEvent(FnKeysDev(gigabyte_kbd_input_dev), key, 0)

\* gigabyte_kbd_emit_volume preferring the "Gigabyte Fn Keys" device.
gigabyte_kbd_emit_volume_primary_first(key, pressed) ==
    IF gigabyte_kbd_input_dev # NULL
    THEN KeyEvent(FnKeysDev(gigabyte_kbd_input_dev), key, pressed)
    ELSE IF gigabyte_kbd_consumer_dev # NULL
    THEN KeyEvent(ConsumerDev(gigabyte_kbd_consumer_dev), key, pressed)
    ELSE << >>

\* gigabyte_kbd_emit_volume(key, pressed): the events reported.
gigabyte_kbd_emit_volume(key, pressed) ==
    IF gigabyte_kbd_consumer_dev # NULL
    THEN KeyEvent(ConsumerDev(gigabyte_kbd_consumer_dev), key, pressed)
    ELSE IF gigabyte_kbd_input_dev # NULL
    THEN KeyEvent(FnKeysDev(gigabyte_kbd_input_dev), key, pressed)
    ELSE << >>

(* ----------------------------------------------------------------- router *)

\* make_u32 that takes the report prefix for granted and composes the low bytes.
make_u32_low_bytes_only(a, b, c, d) == 4 * 2^24 + b * 2^16 + c * 2^8 + d

\* make_u32(a, b, c, d); the byte fields do not overlap, so | is +.  The model
\* feeds first bytes below 0x80 only, so the value stays below 2^31.
make_u32(a, b, c, d) == a * 2^24 + b * 2^16 + c * 2^8 + d

\* The four bytes of a 32-bit code, most significant first.
Bytes(c) == << c \div 2^24, (c \div 2^16) % 256, (c \div 2^8) % 256, c % 256 >>

CatalogCodes ==
    { HIDRAW_FN_ESC, HIDRAW_FN_F2, HIDRAW_FN_F3, HIDRAW_FN_F4, HIDRAW_FN_F5,
      HIDRAW_FN_F6, HIDRAW_FN_F8_PRESS, HIDRAW_FN_F8_RELEASE, HIDRAW_FN_F9_PRESS,
      HIDRAW_FN_F9_RELEASE, HIDRAW_FN_F10, HIDRAW_FN_F11, HIDRAW_FN_F12,
      HIDRAW_FN_F12_ALT }

\* Codes outside the catalog, each one byte away from a catalog code.
OtherCodes == { \h04000085, \h0400007B, \h04000184, \h04010080, \h0300007D }

\* Catalog codes also delivered with a wrong report id or a wrong size.
MisdeliveredCodes == { HIDRAW_FN_F2, HIDRAW_FN_F3, HIDRAW_FN_F6, HIDRAW_FN_F8_PRESS,
                       HIDRAW_FN_F10 }

\* The reports the transport delivers: <<report id, size, bytes>>.
Reports ==
    { [id |-> 4, size |-> 4, rd |-> Bytes(c)] : c \in CatalogCodes \cup OtherCodes }
    \cup { [id |-> 3, size |-> 4, rd |-> Bytes(c)] : c \in MisdeliveredCodes }
    \cup { [id |-> 4, size |-> 5, rd |-> Bytes(c) \o <<0>>] : c \in MisdeliveredCodes }
    \cup { [id |-> 4, size |-> 3, rd |-> SubSeq(Bytes(c), 1, 3)] : c \in MisdeliveredCodes }

\* What a raw event does besides returning: the buffer afterwards, the key
\* events, the reports re-injected with hid_report_raw_event(), the work items
\* passed to schedule_work(), and whether it read through a NULL backlight handle.
Result(ret, out, emitted, injected, scheduled, deref) ==
    [ret |-> ret, out |-> out, emitted |-> emitted, injected |-> injected,
     scheduled |-> scheduled, deref |-> deref]

Pulse(rd, key) == Result(1, rd, gigabyte_kbd_emit_key(key), << >>, {}, FALSE)

Volume(rd, key, pressed) ==
    Result(1, rd, gigabyte_kbd_emit_volume(key, pressed), << >>, {}, FALSE)

\* The toggle cases calling schedule_work() without testing the handle.
ToggleRequestUnguarded(rd, handle, w) == Result(0, rd, << >>, << >>, {w}, FALSE)

\* case HIDRAW_FN_F6 / HIDRAW_FN_F10: schedule_work(&w) if the peripheral's
\* handle is set, then break to return 0.
ToggleRequest(rd, handle, w) ==
    Result(0, rd, << >>, << >>, IF handle # NULL THEN {w} ELSE {}, FALSE)

\* The brightness cases without the gigabyte_kbd_is_backlight_off() test.
BrightnessStepUngated(rd, step, off, deref) ==
    Result(1, << \h03, \h00, \h00, rd[4] >>, << >>,
           << [type |-> "HID_INPUT_REPORT", data |-> << \h03, step, \h00, rd[4] >>,
               size |-> 4] >>,
           {}, deref)

\* case HIDRAW_FN_F3 / HIDRAW_FN_F4.  off: what gigabyte_kbd_is_backlight_off()
\* returned.
BrightnessStep(rd, step, off, deref) ==
    IF off
    THEN Result(0, rd, << >>, << >>, {}, deref)
    ELSE Result(1, << \h03, \h00, \h00, rd[4] >>, << >>,
                << [type |-> "HID_INPUT_REPORT", data |-> << \h03, step, \h00, rd[4] >>,
                    size |-> 4] >>,
                {}, deref)

\* The entry test checking the size and not the report id.
eligible_by_size_only(r) == r.size = 4

\* Only reports with id 4 and four bytes are interpreted.
eligible(r) == ~(r.id # 4 \/ r.size # 4)

\* gigabyte_kbd_raw_event(hdev, report, rd, size), when it returns.
\* readsOff: the value a read of props.power through a NULL handle compares as.
gigabyte_kbd_raw_event_result(r, readsOff) ==
    LET rd == r.rd
        missing == gigabyte_kbd_backlight_device = NULL
        off == IF missing THEN readsOff ELSE gigabyte_kbd_is_backlight_off
    IN  IF ~eligible(r)
        THEN Result(0, rd, << >>, << >>, {}, FALSE)
        ELSE LET hidraw == make_u32(rd[1], rd[2], rd[3], rd[4])
             IN  CASE hidraw = HIDRAW_FN_ESC -> Pulse(rd, "KEY_PROG2")
                   [] hidraw = HIDRAW_FN_F2 -> Pulse(rd, "KEY_WLAN")
                   [] hidraw = HIDRAW_FN_F3 -> BrightnessStep(rd, \h70, off, missing)
                   [] hidraw = HIDRAW_FN_F4 -> BrightnessStep(rd, \h6f, off, missing)
                   [] hidraw = HIDRAW_FN_F5 -> Pulse(rd, "KEY_SWITCHVIDEOMODE")
                   [] hidraw = HIDRAW_FN_F6 ->
                        ToggleRequest(rd, gigabyte_kbd_backlight_device, BacklightWork)
                   [] hidraw = HIDRAW_FN_F8_PRESS -> Volume(rd, "KEY_VOLUMEDOWN", 1)
                   [] hidraw = HIDRAW_FN_F8_RELEASE -> Volume(rd, "KEY_VOLUMEDOWN", 0)
                   [] hidraw = HIDRAW_FN_F9_PRESS -> Volume(rd, "KEY_VOLUMEUP", 1)
                   [] hidraw = HIDRAW_FN_F9_RELEASE -> Volume(rd, "KEY_VOLUMEUP", 0)
                   [] hidraw = HIDRAW_FN_F10 ->
                        ToggleRequest(rd, gigabyte_kbd_touchpad_device, TouchpadWork)
                   [] hidraw = HIDRAW_FN_F11 -> Pulse(rd, "KEY_RFKILL")
                   [] hidraw = HIDRAW_FN_F12 -> Pulse(rd, "KEY_PROG1")
                   [] hidraw = HIDRAW_FN_F12_ALT -> Pulse(rd, "KEY_PROG1")
                   [] OTHER -> Result(0, rd, << >>, << >>, {}, FALSE)

\* The queue counts after schedule_work() was called for each item of ws.
Scheduled(ws) == [w \in Works |-> IF w \in ws THEN schedule_work(w)[w] ELSE pending[w]]

\* What the NULL dereference of gigabyte_kbd_is_backlight_off() can do: fault
\* (an oops in the event handler, which stops the machine), or read some value
\* that compares either way.
NullReadOutcomes == {"fault", "reads_off", "reads_on"}

\* The input devices among those of events that have been destroyed: the
\* Consumer Control input of a removed interface, the "Gigabyte Fn Keys" device
\* after input_unregister_device().
StaleTargets(events) ==
    { e.dev[1] : e \in { events[i] : i \in DOMAIN events } }
    \cap ( (IF consumerFreed THEN {"Consumer Control"} ELSE {})
           \cup (IF inputFreed THEN {"Gigabyte Fn Keys"} ELSE {}) )

\* What input_report_key() on a destroyed input device can do: fault, or run
\* on the freed memory and return.
StaleUseOutcomes == {"fault", "survives"}

\* The outcomes to consider for report r: one, unless r makes the handler
\* dereference the NULL handle or report a key on a destroyed device.
OutcomesFor(r) ==
    IF gigabyte_kbd_raw_event_result(r, TRUE).deref THEN NullReadOutcomes
    ELSE IF StaleTargets(gigabyte_kbd_raw_event_result(r, TRUE).emitted) # {}
    THEN StaleUseOutcomes
    ELSE {"reads_on"}

\* The transport delivers report r on an attached interface and the handler
\* runs to its return (or to the fault).
gigabyte_kbd_raw_event(r, ub) ==
    LET res == gigabyte_kbd_raw_event_result(r, ub = "reads_off")
        stale == StaleTargets(res.emitted)
    IN  /\ Idle
        /\ attached # {}
        /\ nullRead' = (nullRead \/ res.deref)
        /\ IF (res.deref \/ stale # {}) /\ ub = "fault"
           THEN /\ oops' = TRUE
                /\ last' = [op |-> "fault", id |-> r.id, size |-> r.size, rd |-> r.rd,
                            out |-> r.rd, ret |-> 0, emitted |-> res.emitted,
                            injected |-> << >>, scheduled |-> {}, coalesced |-> {},
                            stale |-> stale]
                /\ UNCHANGED <<pending, hist>>
           ELSE /\ oops' = oops
                /\ last' = [op |-> "raw_event", id |-> r.id, size |-> r.size, rd |-> r.rd,
                            out |-> res.out, ret |-> res.ret, emitted |-> res.emitted,
                            injected |-> res.injected, scheduled |-> res.scheduled,
                            coalesced |-> {w \in res.scheduled : pending[w] > 0},
                            stale |-> stale]
                /\ pending' = Scheduled(res.scheduled)
                /\ hist' = IF BacklightWork \in res.scheduled /\ pending[BacklightWork] = 0
                           THEN [hist EXCEPT !.powerAtSchedule = power,
                                             !.externalChange = FALSE]
                           ELSE hist
        /\ UNCHANGED <<attached, sinkUsers, sinkVars, gigabyte_kbd_consumer_dev,
                       consumerFreed, inputFreed, peripheralVars, envVars, power,
                       touchpadBound, running>>

\* The HID core takes the handler's return value and finishes with the report.
hid_input_report_done ==
    /\ ~oops
    /\ last.op = "raw_event"
    /\ last' = NoEvent
    /\ UNCHANGED <<attached, sinkUsers, sinkVars, gigabyte_kbd_consumer_dev,
                   consumerFreed, inputFreed, peripheralVars, envVars, power,
                   touchpadBound, pending, running, nullRead, oops, hist>>

(* ---------------------------------------------------------- specification *)

\* Probe and remove of the interfaces in ifaces.
Lifecycle(ifaces, ccs, outcomes) ==
    \/ \E h \in ifaces, hasCC \in ccs, outcome \in outcomes :
           gigabyte_kbd_probe(h, hasCC, outcome)
    \/ \E h \in ifaces : gigabyte_kbd_remove(h)

\* A remove that other handlers can interleave with.
RacingRemove(ifaces) ==
    \/ \E h \in ifaces : gigabyte_kbd_remove_unregister(h)
    \/ gigabyte_kbd_remove_clear

\* Raw events carrying the reports in reports.
Events(reports) ==
    \/ \E r \in reports : \E ub \in OutcomesFor(r) : gigabyte_kbd_raw_event(r, ub)
    \/ hid_input_report_done

\* The system workqueue running the two work items.
Workers ==
    \/ \E w \in Works : process_one_work(w)
    \/ gigabyte_kbd_backlight_toggle
    \/ \E attachOk \in BOOLEAN : gigabyte_kbd_touchpad_toggle_driver(attachOk)

Environment == backlight_power_changed_externally

Next ==
    \/ Lifecycle(Interfaces, BOOLEAN, SetupOutcomes)
    \/ RacingRemove(Interfaces)
    \/ Events(Reports)
    \/ Workers
    \/ Environment

Spec == Init /\ [][Next]_vars


(* -------------------------------------------------------------- scenarios *)
(* The full state space (every interface, every report, both peripherals)  *)
(* is the product of three nearly independent parts.  Each scenario below  *)
(* keeps every action that can fire in it and bounds the inputs that do    *)
(* not bear on the part it exercises.                                      *)

\* Shared input device: a machine with neither peripheral, so that no work is
\* ever queued and the work items and the backlight never move.
SinkReports ==
    { [id |-> 4, size |-> 4, rd |-> Bytes(c)] :
          c \in {HIDRAW_FN_F2, HIDRAW_FN_F8_PRESS, HIDRAW_FN_F6} }

InitSink ==
    /\ Init
    /\ ~backlightRegistered
    /\ ~touchpadOnBus
    /\ power = FB_BLANK_UNBLANK
    /\ touchpadBound = NULL

NextSink ==
    \/ Lifecycle(Interfaces, BOOLEAN, SetupOutcomes)
    \/ Events(SinkReports)

SpecSink == InitSink /\ [][NextSink]_vars

\* Work items: a machine with both peripherals, interfaces without a Consumer
\* Control input, input device creation succeeding.
WorkReports ==
    { [id |-> 4, size |-> 4, rd |-> Bytes(c)] : c \in {HIDRAW_FN_F6, HIDRAW_FN_F10} }

InitWork ==
    /\ Init
    /\ backlightRegistered
    /\ touchpadOnBus

NextWork ==
    \/ Lifecycle(Interfaces, {FALSE}, {"ok"})
    \/ Events(WorkReports)
    \/ Workers
    \/ Environment

SpecWork == InitWork /\ [][NextWork]_vars

\* Router: every report, on a keyboard with a single interface and a touchpad
\* that has no driver bound.
InitRouter ==
    /\ Init
    /\ touchpadBound = NULL

NextRouter ==
    \/ Lifecycle({1}, BOOLEAN, SetupOutcomes)
    \/ Events(Reports)
    \/ Workers
    \/ Environment

SpecRouter == InitRouter /\ [][NextRouter]_vars


\* Shared input device when input_allocate_device() and
\* input_register_device() always succeed: every attach is a successful one.
NextAttach ==
    \/ Lifecycle(Interfaces, BOOLEAN, {"ok"})
    \/ Events(SinkReports)

SpecAttach == InitSink /\ [][NextAttach]_vars

\* Work items on a keyboard with a single interface, with the scheduling the
\* kernel provides: a queued item is picked up by a worker, a work function
\* runs to its return, and the HID core finishes each report.  The worker and
\* the functions get strong fairness because a raw event, which here excludes
\* every other step until it is finished with, pre-empts them only for a
\* bounded time in the kernel.
NextQueue ==
    \/ Lifecycle({1}, {FALSE}, {"ok"})
    \/ Events(WorkReports)
    \/ Workers
    \/ Environment

SpecQueueFair ==
    /\ InitWork
    /\ [][NextQueue]_vars
    /\ \A w \in Works : SF_vars(process_one_work(w))
    /\ SF_vars(gigabyte_kbd_backlight_toggle)
    /\ SF_vars(\E attachOk \in BOOLEAN : gigabyte_kbd_touchpad_toggle_driver(attachOk))
    /\ WF_vars(hid_input_report_done)

\* Shared input device with raw events of the other interfaces running while
\* a remove is between input_unregister_device() and the NULL assignment.
NextRace ==
    \/ Lifecycle(Interfaces, {FALSE}, SetupOutcomes)
    \/ RacingRemove(Interfaces)
    \/ Events(SinkReports)

SpecRace == InitSink /\ [][NextRace]_vars

(* ----------------------------------------------------------------- claims *)

\* A step in which interface h is probed.
ProbeStep(h) == h \notin attached /\ h \in attached'

\* A step in which interface h is removed.
RemoveStep(h) == h \in attached /\ h \notin attached'

\* C1: when every attach succeeds, the refcount equals the number of attaches
\* not yet matched by a detach: after N attaches and N detaches it is 0 and the
\* input device is unregistered, after fewer detaches the device is registered;
\* an attach that finds the device registered keeps that same device and only
\* increments the refcount.
C1_AttachDetachBalance ==
    /\ [](/\ gigabyte_kbd_refcount = Cardinality(attached)
          /\ (attached = {}) <=> (gigabyte_kbd_input_dev = NULL))
    /\ [][\A h \in Interfaces :
             (ProbeStep(h) /\ gigabyte_kbd_input_dev # NULL)
                 => /\ gigabyte_kbd_input_dev' = gigabyte_kbd_input_dev
                    /\ gigabyte_kbd_refcount' = gigabyte_kbd_refcount + 1]_vars

\* Three attaches and one detach have happened: the interface that created the
\* device is gone, the device is still registered and was reused.
C1_Witness ==
    /\ gigabyte_kbd_input_dev # NULL
    /\ gigabyte_kbd_input_dev \notin attached
    /\ Cardinality(attached) = 2
    /\ gigabyte_kbd_refcount = 2

\* C2: while an interface that attached to the shared input device has not
\* been removed, the device stays registered.
C2_RegisteredWhileAttached ==
    sinkUsers # {} => gigabyte_kbd_input_dev # NULL

\* C3: the refcount is never negative, and a positive refcount implies that
\* the shared input device is registered.
C3_RefcountInvariant ==
    /\ gigabyte_kbd_refcount >= 0
    /\ gigabyte_kbd_refcount > 0 => gigabyte_kbd_input_dev # NULL

\* An interface whose attach failed is attached next to two that hold the device.
C3_Witness ==
    /\ gigabyte_kbd_refcount = 2
    /\ gigabyte_kbd_input_dev # NULL
    /\ attached \ sinkUsers # {}


\* A step in which a worker starts executing work item w.
StartStep(w) == running'[w] > running[w]

\* A step in which the function of work item w returns.
ReturnStep(w) == running'[w] < running[w]

\* C4: submissions of a work item that is already pending collapse into the one
\* pending instance, and starting that instance leaves none queued, so one
\* execution results from them.
C4_Coalescing ==
    /\ [](\A w \in Works : pending[w] <= 1)
    /\ [][\A w \in Works : StartStep(w) => pending'[w] = 0]_vars

\* Fn+F6 arrived again while the backlight work was pending and not started.
C4_Witness ==
    /\ last.op = "raw_event"
    /\ BacklightWork \in last.coalesced
    /\ pending[BacklightWork] = 1
    /\ running[BacklightWork] = 0

\* C5: at most one execution of each work item runs at any time; an item
\* submitted while it executes stays queued until that execution returns.
C5_NoSelfOverlap ==
    /\ [](\A w \in Works : running[w] <= 1)
    /\ [][\A w \in Works : (StartStep(w) => running[w] = 0)]_vars

\* Both work functions execute at once, Fn+F6 has just been dispatched
\* meanwhile, and the backlight work it queued waits for the running one.
C5_Witness ==
    /\ running[BacklightWork] = 1
    /\ running[TouchpadWork] = 1
    /\ last.op = "raw_event"
    /\ BacklightWork \in last.scheduled
    /\ pending[BacklightWork] = 1

\* The driver bound to the touchpad when the toggle function is entered.
BoundBefore == touchpadBound

\* C6 as stated: a toggle that finds driver D bound unbinds it and remembers D;
\* a toggle that finds the touchpad unbound and binds it again binds the
\* remembered driver, and the remembered driver is cleared afterwards.
C6_RebindClearsMemory ==
    [][ReturnStep(TouchpadWork) =>
          /\ BoundBefore # NULL =>
                /\ touchpadBound' = NULL
                /\ gigabyte_kbd_touchpad_driver' = BoundBefore
          /\ (BoundBefore = NULL /\ touchpadBound' # NULL) =>
                /\ touchpadBound' = gigabyte_kbd_touchpad_driver
                /\ gigabyte_kbd_touchpad_driver' = NULL]_vars

\* C6 (amended): a toggle that finds driver D bound unbinds it and remembers D;
\* a toggle that finds the touchpad unbound with D remembered and binds it
\* again binds exactly D, and D stays in the remembered-driver field.
C6_RebindKeepsMemory ==
    [][ReturnStep(TouchpadWork) =>
          /\ BoundBefore # NULL =>
                /\ touchpadBound' = NULL
                /\ gigabyte_kbd_touchpad_driver' = BoundBefore
          /\ (BoundBefore = NULL /\ touchpadBound' # NULL) =>
                /\ gigabyte_kbd_touchpad_driver # NULL
                /\ touchpadBound' = gigabyte_kbd_touchpad_driver
                /\ gigabyte_kbd_touchpad_driver' = gigabyte_kbd_touchpad_driver]_vars

\* The toggle function has just returned and the touchpad is bound: it was
\* unbound when the function was entered, and its remembered driver is back.
C6_Witness ==
    /\ last.op = TouchpadWork
    /\ touchpadBound # NULL
    /\ gigabyte_kbd_touchpad_driver = touchpadBound


\* The raw event just returned was for an eligible report carrying code c.
Dispatched(c) ==
    /\ last.op = "raw_event"
    /\ last.id = 4
    /\ last.size = 4
    /\ last.rd = Bytes(c)

\* The step code the brightness consumer expects for Fn+F3 / Fn+F4.
StepCode(c) == IF c = HIDRAW_FN_F3 THEN \h70 ELSE \h6f

\* C7: Fn+F3 / Fn+F4 with a backlight present.  Backlight powered down: the
\* event is unhandled, the bytes are untouched and nothing is injected.
\* Otherwise one report {0x03, step, 0x00} is injected (step 0x70 for F3, 0x6f
\* for F4), the buffer is left as {0x03, 0x00, 0x00} and the event is handled.
C7_BrightnessStep ==
    \A c \in {HIDRAW_FN_F3, HIDRAW_FN_F4} :
        (Dispatched(c) /\ gigabyte_kbd_backlight_device # NULL) =>
            IF power = FB_BLANK_POWERDOWN
            THEN /\ last.ret = 0
                 /\ last.out = last.rd
                 /\ last.injected = << >>
            ELSE /\ last.ret = 1
                 /\ Len(last.injected) = 1
                 /\ SubSeq(last.injected[1].data, 1, 3) = << \h03, StepCode(c), \h00 >>
                 /\ SubSeq(last.out, 1, 3) = << \h03, \h00, \h00 >>

\* Fn+F4 was dispatched with the backlight present and powered, and was handled.
C7_Witness ==
    /\ Dispatched(HIDRAW_FN_F4)
    /\ gigabyte_kbd_backlight_device # NULL
    /\ power # FB_BLANK_POWERDOWN
    /\ last.ret = 1

\* C8: with the backlight handle absent, an eligible report is dispatched to a
\* handled/unhandled result without any read through the absent handle.
C8_AbsentBacklightNotRead ==
    (/\ gigabyte_kbd_backlight_device = NULL
     /\ last.op \in {"raw_event", "fault"}
     /\ last.id = 4
     /\ last.size = 4)
        => (last.op = "raw_event" /\ ~nullRead)

\* C9: an eligible report whose code is not in the catalog is unhandled, emits
\* no key, queues no work, leaves the bytes alone and changes no driver state.
C9_UnknownCodeNoEffect ==
    [][(/\ last'.op = "raw_event"
        /\ last'.id = 4
        /\ last'.size = 4
        /\ last'.rd \notin {Bytes(c) : c \in CatalogCodes})
           => /\ last'.ret = 0
              /\ last'.emitted = << >>
              /\ last'.injected = << >>
              /\ last'.scheduled = {}
              /\ last'.out = last'.rd
              /\ UNCHANGED <<attached, sinkVars, gigabyte_kbd_consumer_dev, peripheralVars,
                             power, touchpadBound, pending, running, nullRead, oops>>]_vars

\* An unknown code was dispatched while the input device and both peripheral
\* handles were present.
C9_Witness ==
    /\ last.op = "raw_event"
    /\ last.id = 4
    /\ last.size = 4
    /\ last.rd \notin {Bytes(c) : c \in CatalogCodes}
    /\ gigabyte_kbd_input_dev # NULL
    /\ gigabyte_kbd_backlight_device # NULL
    /\ gigabyte_kbd_touchpad_device # NULL

\* C10: a report with another id or another size is not interpreted: it is
\* unhandled, with no key event, no work queued and no byte rewritten.
C10_IneligibleNotInterpreted ==
    (last.op = "raw_event" /\ (last.id # 4 \/ last.size # 4)) =>
        /\ last.ret = 0
        /\ last.emitted = << >>
        /\ last.injected = << >>
        /\ last.scheduled = {}
        /\ last.out = last.rd

\* The bytes of Fn+F2 arrived under report id 3 while the input device existed.
C10_Witness ==
    /\ last.op = "raw_event"
    /\ last.id = 3
    /\ last.size = 4
    /\ last.rd = Bytes(HIDRAW_FN_F2)
    /\ gigabyte_kbd_input_dev # NULL

\* The volume codes with the key and the value they report.
VolumeCodes ==
    { <<HIDRAW_FN_F8_PRESS, "KEY_VOLUMEDOWN", 1>>, <<HIDRAW_FN_F8_RELEASE, "KEY_VOLUMEDOWN", 0>>,
      <<HIDRAW_FN_F9_PRESS, "KEY_VOLUMEUP", 1>>, <<HIDRAW_FN_F9_RELEASE, "KEY_VOLUMEUP", 0>> }

\* The handler was entered for an eligible report carrying code c and has
\* returned or faulted.
Entered(c) ==
    /\ last.op \in {"raw_event", "fault"}
    /\ last.id = 4
    /\ last.size = 4
    /\ last.rd = Bytes(c)

\* events is exactly one key report of (key, value) on dev and its sync.
OneLevelEvent(events, dev, key, value) ==
    /\ Len(events) = 2
    /\ events[1] = [dev |-> dev, type |-> "EV_KEY", key |-> key, value |-> value]
    /\ events[2].type = "EV_SYN"
    /\ events[2].dev = dev

\* C11 as stated: every volume code is handled and reports exactly one level
\* event, on the Consumer Control input when one was discovered and otherwise
\* on the "Gigabyte Fn Keys" device.
C11_VolumeAlwaysEmits ==
    \A v \in VolumeCodes :
        Dispatched(v[1]) =>
            /\ last.ret = 1
            /\ OneLevelEvent(last.emitted,
                             IF gigabyte_kbd_consumer_dev # NULL
                             THEN ConsumerDev(gigabyte_kbd_consumer_dev)
                             ELSE FnKeysDev(gigabyte_kbd_input_dev),
                             v[2], v[3])

\* C11, amended: a volume code reports one level event (VOLUMEDOWN for F8,
\* VOLUMEUP for F9, value 1 on press and 0 on release, no release of its own)
\* through the Consumer Control reference when one is set, otherwise on the
\* "Gigabyte Fn Keys" device when that is registered, and nothing when neither
\* exists; the report is handled whenever the handler returns, and it fails to
\* return only when the Consumer Control reference it used was stale.
C11_VolumeLevel ==
    \A v \in VolumeCodes :
        Entered(v[1]) =>
            /\ last.op = "raw_event" => last.ret = 1
            /\ last.op = "fault" => "Consumer Control" \in last.stale
            /\ IF gigabyte_kbd_consumer_dev # NULL
               THEN OneLevelEvent(last.emitted, ConsumerDev(gigabyte_kbd_consumer_dev),
                                  v[2], v[3])
               ELSE IF gigabyte_kbd_input_dev # NULL
               THEN OneLevelEvent(last.emitted, FnKeysDev(gigabyte_kbd_input_dev),
                                  v[2], v[3])
               ELSE last.emitted = << >>

\* The release of Fn+F9 was dispatched on an interface without a Consumer
\* Control input whose input device creation had failed: handled, nothing
\* reported.
C11_Witness ==
    /\ Dispatched(HIDRAW_FN_F9_RELEASE)
    /\ gigabyte_kbd_consumer_dev = NULL
    /\ gigabyte_kbd_input_dev = NULL
    /\ last.ret = 1
    /\ last.emitted = << >>

\* The toggle codes with the work item each one requests.
ToggleCodes == { <<HIDRAW_FN_F6, BacklightWork>>, <<HIDRAW_FN_F10, TouchpadWork>> }

\* The handle of the peripheral work item w acts on.
HandleOf(w) ==
    IF w = BacklightWork THEN gigabyte_kbd_backlight_device
    ELSE gigabyte_kbd_touchpad_device

\* C12: Fn+F6 and Fn+F10 are always unhandled; the work item is passed to
\* schedule_work() exactly when the peripheral's handle is present (and is then
\* queued when the handler returns); while the handle is absent no instance of
\* that item is queued or executing.
C12_ToggleRequests ==
    \A t \in ToggleCodes :
        /\ Dispatched(t[1]) =>
               /\ last.ret = 0
               /\ last.emitted = << >>
               /\ last.out = last.rd
               /\ last.scheduled = (IF HandleOf(t[2]) # NULL THEN {t[2]} ELSE {})
               /\ HandleOf(t[2]) # NULL => pending[t[2]] = 1
        /\ HandleOf(t[2]) = NULL => (pending[t[2]] = 0 /\ running[t[2]] = 0)

\* Fn+F10 was dispatched on a machine without the touchpad and queued nothing,
\* while the backlight work queued by an earlier Fn+F6 is waiting.
C12_Witness ==
    /\ Dispatched(HIDRAW_FN_F10)
    /\ gigabyte_kbd_touchpad_device = NULL
    /\ last.scheduled = {}
    /\ last.ret = 0
    /\ gigabyte_kbd_backlight_device # NULL
    /\ pending[BacklightWork] = 1

\* The simple emit codes with the key each one reports.
PulseCodes ==
    { <<HIDRAW_FN_ESC, "KEY_PROG2">>, <<HIDRAW_FN_F2, "KEY_WLAN">>,
      <<HIDRAW_FN_F5, "KEY_SWITCHVIDEOMODE">>, <<HIDRAW_FN_F11, "KEY_RFKILL">>,
      <<HIDRAW_FN_F12, "KEY_PROG1">>, <<HIDRAW_FN_F12_ALT, "KEY_PROG1">> }

\* events is exactly one pulse of key on dev: key down, sync, key up, sync.
OnePulse(events, dev, key) ==
    /\ Len(events) = 4
    /\ OneLevelEvent(SubSeq(events, 1, 2), dev, key, 1)
    /\ OneLevelEvent(SubSeq(events, 3, 4), dev, key, 0)

\* C13: a simple emit code is handled; with the "Gigabyte Fn Keys" device
\* registered it reports exactly one pulse of its key on that device, key down
\* and then key up; without the device it reports nothing and is still handled.
C13_SimplePulse ==
    \A p \in PulseCodes :
        Dispatched(p[1]) =>
            /\ last.ret = 1
            /\ last.out = last.rd
            /\ last.scheduled = {}
            /\ IF gigabyte_kbd_input_dev # NULL
               THEN OnePulse(last.emitted, FnKeysDev(gigabyte_kbd_input_dev), p[2])
               ELSE last.emitted = << >>

\* The alternate Fn+F12 code was dispatched with the device registered and
\* reported its four events.
C13_Witness ==
    /\ Dispatched(HIDRAW_FN_F12_ALT)
    /\ gigabyte_kbd_input_dev # NULL
    /\ Len(last.emitted) = 4
    /\ last.emitted[3].value = 0

\* C14: an emission on the "Gigabyte Fn Keys" device never targets a device
\* that has been unregistered and destroyed, however raw events interleave
\* with probe and remove: it reaches the registered device or is a no-op.
C14_NoEmissionOnDestroyedSink ==
    last.op \in {"raw_event", "fault"} => "Gigabyte Fn Keys" \notin last.stale

\* C15: the backlight toggle decides from the power state it reads when it
\* executes: powered down then, it enables; otherwise it disables; whatever
\* the state was when the work was queued.
C15_ToggleReadsAtExecution ==
    [][ReturnStep(BacklightWork) =>
           power' = IF power = FB_BLANK_POWERDOWN
                    THEN FB_BLANK_UNBLANK
                    ELSE FB_BLANK_POWERDOWN]_vars

\* The work was queued with the backlight powered, the power state was changed
\* from outside while the work waited, and the execution enabled the backlight.
C15_Witness ==
    /\ last.op = BacklightWork
    /\ hist.powerAtSchedule = FB_BLANK_UNBLANK
    /\ hist.externalChange
    /\ pending[BacklightWork] = 0
    /\ power = FB_BLANK_UNBLANK

\* C16: a failed rebind leaves the remembered driver populated and the touchpad
\* unbound and queues no retry; the next execution of the touchpad toggle
\* attempts to bind that same remembered driver again.
C16_FailedRebindRetried ==
    /\ [][(/\ ReturnStep(TouchpadWork)
           /\ touchpadBound = NULL
           /\ gigabyte_kbd_touchpad_driver # NULL
           /\ touchpadBound' = NULL)
              => /\ gigabyte_kbd_touchpad_driver' = gigabyte_kbd_touchpad_driver
                 /\ pending' = pending]_vars
    /\ [][(ReturnStep(TouchpadWork) /\ hist.rebindFailed)
              => /\ gigabyte_kbd_touchpad_driver = hist.detached
                 /\ touchpadBound' \in {NULL, hist.detached}]_vars

\* C17: when the creation or registration of the input device fails in probe,
\* probe still binds the interface, the refcount and the device pointer are
\* what they were (no device registered), both peripheral lookups still run,
\* and simple emit codes arriving while there is no device are handled
\* without any emission.
C17_SetupFailureNotFatal ==
    /\ [][\A h \in Interfaces :
             (ProbeStep(h) /\ h \notin sinkUsers')
                 => /\ h \in attached'
                    /\ UNCHANGED sinkVars
                    /\ gigabyte_kbd_input_dev' = NULL
                    /\ gigabyte_kbd_refcount' = 0
                    /\ gigabyte_kbd_backlight_device' = backlight_device_get_by_name
                    /\ gigabyte_kbd_touchpad_device' = bus_find_device]_vars
    /\ [](\A p \in PulseCodes :
             (Dispatched(p[1]) /\ gigabyte_kbd_input_dev = NULL)
                 => (last.ret = 1 /\ last.emitted = << >>))

\* The interface is bound although its input device creation failed, both
\* peripherals were found, and Fn+F2 was handled with nothing reported.
C17_Witness ==
    /\ attached # {}
    /\ sinkUsers = {}
    /\ gigabyte_kbd_input_dev = NULL
    /\ gigabyte_kbd_backlight_device # NULL
    /\ gigabyte_kbd_touchpad_device # NULL
    /\ Dispatched(HIDRAW_FN_F2)
    /\ last.ret = 1
    /\ last.emitted = << >>

C18_SubmittedWorkRuns ==
    /\ [][\A w \in Works : pending'[w] < pending[w] => StartStep(w)]_vars
    /\ [][last'.op = "raw_event" => running' = running]_vars
    /\ [](\A t \in ToggleCodes :
             (Dispatched(t[1]) /\ t[2] \in last.scheduled) => pending[t[2]] = 1)
    /\ \A w \in Works : (pending[w] > 0) ~> (pending[w] = 0 /\ running[w] > 0)

\* The backlight toggle has just run to its return although the interface
\* that queued it had been removed in the meantime.
C18_Witness ==
    /\ last.op = BacklightWork
    /\ attached = {}
    /\ pending[BacklightWork] = 0

====
